---- MODULE Spec2Model ----
(***************************************************************************)
(* A model of src/lib.rs: a hand-written growable vector (Vec<T>) on top   *)
(* of the raw allocator, and its consuming double-ended iterator           *)
(* (IntoIter<T>).                                                          *)
(*                                                                         *)
(* Memory is modelled explicitly: the heap maps base addresses to blocks   *)
(* of element slots, pointers are byte addresses, and ptr.offset(i) moves  *)
(* by i * size_of::<T>() bytes.  A slot that was moved out of keeps its    *)
(* bits (ptr::read does not clear), so a wrong read shows up as a second   *)
(* copy of an element.  Elements are distinct objects, named 1, 2, ... in  *)
(* the order the caller constructs them.                                   *)
(***************************************************************************)
EXTENDS Integers, Sequences, FiniteSets, TLC

\* The number of elements the caller constructs over one lifetime.
MaxElems == 5

\* usize is Width bits wide; isize::MAX is 2^(Width-1) - 1.
Width == 5
\* mem::size_of::<T>() and mem::align_of::<T>(), in bytes.
ElemSize == 2
Align == 2

UsizeMod == 2 ^ Width
IsizeMax == 2 ^ (Width - 1) - 1

\* The null pointer the allocator returns on failure.
Null == 0
\* Unique::dangling(): the non-null, well-aligned sentinel address.
Dangling == Align
\* Option::None, as the result of pop / next / next_back.
None == 0
\* The content of a slot that was never written.
Uninit == -1
\* The base addresses the allocator may hand out.
HeapBases == {8, 16}

Elems == 1 .. MaxElems

VARIABLES
    phase,       \* "vec": the Vec is live; "iter": it was turned into an
                 \* IntoIter; "dropped": the owner was dropped; "aborted"
    vec,         \* the Vec's fields: ptr, cap, len
    iter,        \* the IntoIter's fields: buf, cap, start, end
    heap,        \* the allocator's blocks: base address -> bytes, slots
    nextId,      \* the next element the caller constructs
    stored,      \* the elements a push or insert has put in the container
    taken,       \* how many pops and removes have returned an element
    handed,      \* element -> how many times it was returned to the caller
    destructed,  \* the elements whose destructor has run, in order
    released,    \* the dealloc calls made, in order
    last,        \* the last call: its name, arguments, result, and the view
                 \* it started from
    run,         \* observer of the run "k pushes, then k pops, then a pop"
    fwd,         \* the elements next has returned, in order
    bwd,         \* the elements next_back has returned, in order
    ub           \* a read of a slot that holds no element, or an access
                 \* outside every live block, has happened

vars == <<phase, vec, iter, heap, nextId, stored, taken, handed, destructed,
          released, last, run, fwd, bwd, ub>>

----------------------------------------------------------------------------
\* usize arithmetic.

WrapMul(a, b) == (a * b) % UsizeMod

----------------------------------------------------------------------------
\* The allocator and raw memory.

Free == [bytes |-> 0, slots |-> <<>>]

UninitSlots(bytes) == [j \in 1 .. (bytes \div ElemSize) |-> Uninit]

\* ptr.offset(i)
Offset(p, i) == p + i * ElemSize

\* The live blocks that hold address a.
BlocksAt(h, a) ==
    {b \in HeapBases : h[b].bytes > 0 /\ b <= a /\ a + ElemSize <= b + h[b].bytes
                       /\ (a - b) % ElemSize = 0}

SlotIndex(b, a) == (a - b) \div ElemSize + 1

\* ptr::read(a): the bits at a; Uninit when a is in no live block.
Read(h, a) ==
    IF BlocksAt(h, a) = {} THEN Uninit
    ELSE LET b == CHOOSE c \in BlocksAt(h, a) : TRUE IN h[b].slots[SlotIndex(b, a)]

\* ptr::write(a, e): overwrites without reading or destructing.
Write(h, a, e) ==
    IF BlocksAt(h, a) = {} THEN h
    ELSE LET b == CHOOSE c \in BlocksAt(h, a) : TRUE
         IN  [h EXCEPT ![b].slots[SlotIndex(b, a)] = e]

RECURSIVE WriteAll(_, _, _, _)
\* Writes vals[k .. Len(vals)] to the slots from address a on.
WriteAll(h, a, vals, k) ==
    IF k > Len(vals) THEN h
    ELSE WriteAll(Write(h, a, vals[k]), Offset(a, 1), vals, k + 1)

\* ptr::copy(src, dst, count): a memmove of count elements.
Copy(h, src, dst, count) ==
    LET vals == [k \in 1 .. count |-> Read(h, Offset(src, k - 1))]
    IN  WriteAll(h, dst, vals, 1)

\* Some access of ptr::copy(src, dst, count) falls outside every live block.
CopyWild(h, src, dst, count) ==
    \E k \in 0 .. count - 1 :
        BlocksAt(h, Offset(src, k)) = {} \/ BlocksAt(h, Offset(dst, k)) = {}

\* alloc(layout): null, or a fresh block of uninitialized slots.
Alloc(h, bytes) ==
    {[ptr |-> Null, heap |-> h]} \cup
    {[ptr |-> b, heap |-> [h EXCEPT ![b] = [bytes |-> bytes,
                                             slots |-> UninitSlots(bytes)]]] :
        b \in {c \in HeapBases : h[c].bytes = 0}}

\* realloc(p, layout, new_bytes): null (the old block stays), or a block of
\* new_bytes at the same or at another address with the old contents kept.
Realloc(h, p, oldBytes, newBytes) ==
    {[ptr |-> Null, heap |-> h]} \cup
    {[ptr |-> b,
      heap |-> [c \in HeapBases |->
                  IF c = b
                  THEN [bytes |-> newBytes,
                        slots |-> [j \in 1 .. (newBytes \div ElemSize) |->
                                     IF j <= Len(h[p].slots) THEN h[p].slots[j]
                                     ELSE Uninit]]
                  ELSE IF c = p THEN Free ELSE h[c]]] :
        b \in {c \in HeapBases : c = p \/ h[c].bytes = 0}}

\* dealloc(p, layout) is valid when p is a live block of exactly that size.
DeallocValid(h, p, bytes) == p \in HeapBases /\ bytes > 0 /\ h[p].bytes = bytes

Dealloc(h, p, bytes) == IF DeallocValid(h, p, bytes) THEN [h EXCEPT ![p] = Free] ELSE h

----------------------------------------------------------------------------
\* Vec<T>

\* Vec::new()
New == [ptr |-> Dangling, cap |-> 0, len |-> 0]

\* Deref::deref: the slice of the first len slots.
View(v, h) == [i \in 1 .. v.len |-> Read(h, Offset(v.ptr, i - 1))]

\* The order in which the branch cap != 0 of Vec::grow evaluates: the two
\* multiplications by which new_cap and old_num_bytes are initialised, the
\* assertion, and, when it passes, the doubling of the byte size and the
\* call of realloc.
GrowSteps(passes) ==
    <<"cap*2", "cap*elem_size", "assert">>
        \o (IF passes THEN <<"bytes*2", "realloc">> ELSE <<>>)

\* The multiplications of that branch whose exact product does not fit usize.
GrowWrapped(v, passes) ==
    {m \in {"cap*2"} : v.cap * 2 >= UsizeMod}
        \cup {m \in {"cap*elem_size"} : v.cap * ElemSize >= UsizeMod}
        \cup {m \in {"bytes*2"} : passes /\ WrapMul(v.cap, ElemSize) * 2 >= UsizeMod}

\* Vec::grow with the capacity raised by one slot instead of doubled.
GrowAddsOne(v, h) ==
    IF v.cap = 0
    THEN {[kind |-> IF a.ptr = Null THEN "abort" ELSE "ok",
           vec  |-> IF a.ptr = Null THEN v ELSE [v EXCEPT !.ptr = a.ptr, !.cap = 1],
           heap |-> a.heap,
           steps |-> <<"alloc">>, wrapped |-> {}] : a \in Alloc(h, ElemSize)}
    ELSE LET new_cap       == (v.cap + 1) % UsizeMod
             old_num_bytes == WrapMul(v.cap, ElemSize)
             new_num_bytes == (old_num_bytes + ElemSize) % UsizeMod
         IN  IF ~(old_num_bytes <= IsizeMax \div 2)
             THEN {[kind |-> "panic", vec |-> v, heap |-> h,
                    steps |-> GrowSteps(FALSE), wrapped |-> GrowWrapped(v, FALSE)]}
             ELSE {[kind |-> IF a.ptr = Null THEN "abort" ELSE "ok",
                    vec  |-> IF a.ptr = Null THEN v
                             ELSE [v EXCEPT !.ptr = a.ptr, !.cap = new_cap],
                    heap |-> a.heap,
                    steps |-> GrowSteps(TRUE), wrapped |-> GrowWrapped(v, TRUE)] :
                      a \in Realloc(h, v.ptr, old_num_bytes, new_num_bytes)}

\* Vec::grow without the assertion on the byte size.
GrowUnchecked(v, h) ==
    IF v.cap = 0
    THEN {[kind |-> IF a.ptr = Null THEN "abort" ELSE "ok",
           vec  |-> IF a.ptr = Null THEN v ELSE [v EXCEPT !.ptr = a.ptr, !.cap = 1],
           heap |-> a.heap,
           steps |-> <<"alloc">>, wrapped |-> {}] : a \in Alloc(h, ElemSize)}
    ELSE LET new_cap       == WrapMul(v.cap, 2)
             old_num_bytes == WrapMul(v.cap, ElemSize)
             new_num_bytes == WrapMul(old_num_bytes, 2)
         IN  {[kind |-> IF a.ptr = Null THEN "abort" ELSE "ok",
               vec  |-> IF a.ptr = Null THEN v
                        ELSE [v EXCEPT !.ptr = a.ptr, !.cap = new_cap],
               heap |-> a.heap,
               steps |-> <<"cap*2", "cap*elem_size", "bytes*2", "realloc">>,
               wrapped |-> GrowWrapped(v, TRUE)] :
                 a \in Realloc(h, v.ptr, old_num_bytes, new_num_bytes)}

\* Vec::grow that stores the new capacity but not the pointer realloc
\* returned.
GrowKeepsPtr(v, h) ==
    IF v.cap = 0
    THEN {[kind |-> IF a.ptr = Null THEN "abort" ELSE "ok",
           vec  |-> IF a.ptr = Null THEN v ELSE [v EXCEPT !.ptr = a.ptr, !.cap = 1],
           heap |-> a.heap,
           steps |-> <<"alloc">>, wrapped |-> {}] : a \in Alloc(h, ElemSize)}
    ELSE LET new_cap       == WrapMul(v.cap, 2)
             old_num_bytes == WrapMul(v.cap, ElemSize)
             new_num_bytes == WrapMul(old_num_bytes, 2)
         IN  IF ~(old_num_bytes <= IsizeMax \div 2)
             THEN {[kind |-> "panic", vec |-> v, heap |-> h,
                    steps |-> GrowSteps(FALSE), wrapped |-> GrowWrapped(v, FALSE)]}
             ELSE {[kind |-> IF a.ptr = Null THEN "abort" ELSE "ok",
                    vec  |-> IF a.ptr = Null THEN v ELSE [v EXCEPT !.cap = new_cap],
                    heap |-> a.heap,
                    steps |-> GrowSteps(TRUE), wrapped |-> GrowWrapped(v, TRUE)] :
                      a \in Realloc(h, v.ptr, old_num_bytes, new_num_bytes)}

\* Vec::grow that allocates a fresh block instead of reallocating the old
\* one.
GrowAllocsFresh(v, h) ==
    IF v.cap = 0
    THEN {[kind |-> IF a.ptr = Null THEN "abort" ELSE "ok",
           vec  |-> IF a.ptr = Null THEN v ELSE [v EXCEPT !.ptr = a.ptr, !.cap = 1],
           heap |-> a.heap,
           steps |-> <<"alloc">>, wrapped |-> {}] : a \in Alloc(h, ElemSize)}
    ELSE LET new_cap       == WrapMul(v.cap, 2)
             old_num_bytes == WrapMul(v.cap, ElemSize)
             new_num_bytes == WrapMul(old_num_bytes, 2)
         IN  IF ~(old_num_bytes <= IsizeMax \div 2)
             THEN {[kind |-> "panic", vec |-> v, heap |-> h,
                    steps |-> GrowSteps(FALSE), wrapped |-> GrowWrapped(v, FALSE)]}
             ELSE {[kind |-> IF a.ptr = Null THEN "abort" ELSE "ok",
                    vec  |-> IF a.ptr = Null THEN v
                             ELSE [v EXCEPT !.ptr = a.ptr, !.cap = new_cap],
                    heap |-> a.heap,
                    steps |-> GrowSteps(TRUE), wrapped |-> GrowWrapped(v, TRUE)] :
                      a \in Alloc(h, new_num_bytes)}

\* Vec::grow: the outcomes "ok" (cap and ptr updated), "panic" (the
\* assertion on the byte size failed) and "abort" (the allocator
\* returned null).
Grow(v, h) ==
    IF v.cap = 0
    THEN {[kind |-> IF a.ptr = Null THEN "abort" ELSE "ok",
           vec  |-> IF a.ptr = Null THEN v ELSE [v EXCEPT !.ptr = a.ptr, !.cap = 1],
           heap |-> a.heap,
           steps |-> <<"alloc">>, wrapped |-> {}] : a \in Alloc(h, ElemSize)}
    ELSE LET new_cap       == WrapMul(v.cap, 2)
             old_num_bytes == WrapMul(v.cap, ElemSize)
             new_num_bytes == WrapMul(old_num_bytes, 2)
         IN  IF ~(old_num_bytes <= IsizeMax \div 2)
             THEN {[kind |-> "panic", vec |-> v, heap |-> h,
                    steps |-> GrowSteps(FALSE), wrapped |-> GrowWrapped(v, FALSE)]}
             ELSE {[kind |-> IF a.ptr = Null THEN "abort" ELSE "ok",
                    vec  |-> IF a.ptr = Null THEN v
                             ELSE [v EXCEPT !.ptr = a.ptr, !.cap = new_cap],
                    heap |-> a.heap,
                    steps |-> GrowSteps(TRUE), wrapped |-> GrowWrapped(v, TRUE)] :
                      a \in Realloc(h, v.ptr, old_num_bytes, new_num_bytes)}

\* The grow step with the test len > cap in place of len == cap.
GrowIfOverfull(v, h) ==
    IF v.len > v.cap THEN Grow(v, h)
    ELSE {[kind |-> "ok", vec |-> v, heap |-> h, steps |-> <<>>, wrapped |-> {}]}

\* The grow step of push and insert: only when the buffer is full.
GrowIfFull(v, h) ==
    IF v.len = v.cap THEN Grow(v, h)
    ELSE {[kind |-> "ok", vec |-> v, heap |-> h, steps |-> <<>>, wrapped |-> {}]}

\* An access of slot number slot of the buffer: a read ("r") or a write
\* ("w"), with self.len and self.cap as they are when it happens and the
\* len the call started with.
Acc(rw, slot, v, len0) ==
    [rw |-> rw, slot |-> slot, len |-> v.len, len0 |-> len0, cap |-> v.cap]

\* The accesses of ptr::copy from slot src to slot dst: count reads, then
\* count writes.
CopyAcc(v, len0, src, dst, count) ==
    [k \in 1 .. count |-> Acc("r", src + k - 1, v, len0)]
        \o [k \in 1 .. count |-> Acc("w", dst + k - 1, v, len0)]

\* Vec::push(elem)
PushOf(v, h, elem) ==
    {IF g.kind = "ok"
     THEN [kind |-> "ok",
           vec  |-> [g.vec EXCEPT !.len = @ + 1],
           heap |-> Write(g.heap, Offset(g.vec.ptr, g.vec.len), elem),
           wild |-> BlocksAt(g.heap, Offset(g.vec.ptr, g.vec.len)) = {},
           acc  |-> <<Acc("w", g.vec.len, g.vec, v.len)>>,
           steps |-> g.steps, wrapped |-> g.wrapped]
     ELSE [kind |-> g.kind, vec |-> v, heap |-> g.heap, wild |-> FALSE,
           acc |-> <<>>, steps |-> g.steps, wrapped |-> g.wrapped] :
        g \in GrowIfFull(v, h)}

\* pop returning the element at the front of the buffer.
PopFront(v, h) ==
    IF v.len = 0
    THEN [vec |-> v, ret |-> None, acc |-> <<>>]
    ELSE LET w == [v EXCEPT !.len = @ - 1]
         IN  [vec |-> w, ret |-> Read(h, w.ptr), acc |-> <<Acc("r", 0, w, v.len)>>]

\* pop reading the slot at the old len, before the decrement.
PopReadsOldLen(v, h) ==
    IF v.len = 0
    THEN [vec |-> v, ret |-> None, acc |-> <<>>]
    ELSE [vec |-> [v EXCEPT !.len = @ - 1], ret |-> Read(h, Offset(v.ptr, v.len)),
          acc |-> <<Acc("r", v.len, [v EXCEPT !.len = @ - 1], v.len)>>]

\* Vec::pop()
PopOf(v, h) ==
    IF v.len = 0
    THEN [vec |-> v, ret |-> None, acc |-> <<>>]
    ELSE LET w == [v EXCEPT !.len = @ - 1]
         IN  [vec |-> w, ret |-> Read(h, Offset(w.ptr, w.len)),
              acc |-> <<Acc("r", w.len, w, v.len)>>]

\* insert that grows a full buffer before it checks the index.
InsertGrowsFirst(v, h, index, elem) ==
    {IF g.kind = "ok" /\ ~(index <= v.len)
     THEN [kind |-> "panic", vec |-> g.vec, heap |-> g.heap, wild |-> FALSE,
           acc |-> <<>>, steps |-> g.steps, wrapped |-> g.wrapped]
     ELSE IF g.kind = "ok"
          THEN LET p  == g.vec.ptr
                   h1 == IF index < g.vec.len
                         THEN Copy(g.heap, Offset(p, index), Offset(p, index + 1),
                                   g.vec.len - index)
                         ELSE g.heap
               IN  [kind |-> "ok",
                    vec  |-> [g.vec EXCEPT !.len = @ + 1],
                    heap |-> Write(h1, Offset(p, index), elem),
                    wild |-> FALSE,
                    acc  |-> (IF index < g.vec.len
                              THEN CopyAcc(g.vec, v.len, index, index + 1,
                                           g.vec.len - index)
                              ELSE <<>>) \o <<Acc("w", index, g.vec, v.len)>>,
                    steps |-> g.steps, wrapped |-> g.wrapped]
          ELSE [kind |-> g.kind, vec |-> v, heap |-> g.heap, wild |-> FALSE,
                acc |-> <<>>, steps |-> g.steps, wrapped |-> g.wrapped] :
        g \in GrowIfFull(v, h)}

\* insert that shifts first and grows a full buffer afterwards.
InsertShiftsBeforeGrow(v, h, index, elem) ==
    IF ~(index <= v.len)
    THEN {[kind |-> "panic", vec |-> v, heap |-> h, wild |-> FALSE,
           acc |-> <<>>, steps |-> <<>>, wrapped |-> {}]}
    ELSE LET h1 == IF index < v.len
                   THEN Copy(h, Offset(v.ptr, index), Offset(v.ptr, index + 1),
                             v.len - index)
                   ELSE h
             sh == IF index < v.len
                   THEN CopyAcc(v, v.len, index, index + 1, v.len - index)
                   ELSE <<>>
         IN  {IF g.kind = "ok"
              THEN [kind |-> "ok",
                    vec  |-> [g.vec EXCEPT !.len = @ + 1],
                    heap |-> Write(g.heap, Offset(g.vec.ptr, index), elem),
                    wild |-> CopyWild(h, Offset(v.ptr, index), Offset(v.ptr, index + 1),
                                      v.len - index),
                    acc  |-> sh \o <<Acc("w", index, g.vec, v.len)>>,
                    steps |-> g.steps, wrapped |-> g.wrapped]
              ELSE [kind |-> g.kind, vec |-> v, heap |-> g.heap, wild |-> FALSE,
                    acc |-> <<>>, steps |-> g.steps, wrapped |-> g.wrapped] :
                 g \in GrowIfFull(v, h1)}

\* insert without the block shift: the element at index is overwritten.
InsertNoShift(v, h, index, elem) ==
    IF ~(index <= v.len)
    THEN {[kind |-> "panic", vec |-> v, heap |-> h, wild |-> FALSE,
           acc |-> <<>>, steps |-> <<>>, wrapped |-> {}]}
    ELSE {IF g.kind = "ok"
          THEN [kind |-> "ok",
                vec  |-> [g.vec EXCEPT !.len = @ + 1],
                heap |-> Write(g.heap, Offset(g.vec.ptr, index), elem),
                wild |-> BlocksAt(g.heap, Offset(g.vec.ptr, index)) = {},
                acc  |-> <<Acc("w", index, g.vec, v.len)>>,
                steps |-> g.steps, wrapped |-> g.wrapped]
          ELSE [kind |-> g.kind, vec |-> v, heap |-> g.heap, wild |-> FALSE,
                acc |-> <<>>, steps |-> g.steps, wrapped |-> g.wrapped] :
             g \in GrowIfFull(v, h)}

\* insert shifting len - index - 1 elements: the last one is left behind.
InsertShiftsShort(v, h, index, elem) ==
    IF ~(index <= v.len)
    THEN {[kind |-> "panic", vec |-> v, heap |-> h, wild |-> FALSE,
           acc |-> <<>>, steps |-> <<>>, wrapped |-> {}]}
    ELSE {IF g.kind = "ok"
          THEN LET p  == g.vec.ptr
                   h1 == IF index < g.vec.len
                         THEN Copy(g.heap, Offset(p, index), Offset(p, index + 1),
                                   g.vec.len - index - 1)
                         ELSE g.heap
               IN  [kind |-> "ok",
                    vec  |-> [g.vec EXCEPT !.len = @ + 1],
                    heap |-> Write(h1, Offset(p, index), elem),
                    wild |-> BlocksAt(h1, Offset(p, index)) = {},
                    acc  |-> (IF index < g.vec.len
                              THEN CopyAcc(g.vec, v.len, index, index + 1,
                                           g.vec.len - index - 1)
                              ELSE <<>>) \o <<Acc("w", index, g.vec, v.len)>>,
                    steps |-> g.steps, wrapped |-> g.wrapped]
          ELSE [kind |-> g.kind, vec |-> v, heap |-> g.heap, wild |-> FALSE,
                acc |-> <<>>, steps |-> g.steps, wrapped |-> g.wrapped] :
             g \in GrowIfFull(v, h)}

\* Vec::insert(index, elem)
InsertOf(v, h, index, elem) ==
    IF ~(index <= v.len)
    THEN {[kind |-> "panic", vec |-> v, heap |-> h, wild |-> FALSE,
           acc |-> <<>>, steps |-> <<>>, wrapped |-> {}]}
    ELSE {IF g.kind = "ok"
          THEN LET p  == g.vec.ptr
                   h1 == IF index < g.vec.len
                         THEN Copy(g.heap, Offset(p, index), Offset(p, index + 1),
                                   g.vec.len - index)
                         ELSE g.heap
               IN  [kind |-> "ok",
                    vec  |-> [g.vec EXCEPT !.len = @ + 1],
                    heap |-> Write(h1, Offset(p, index), elem),
                    wild |-> \/ CopyWild(g.heap, Offset(p, index), Offset(p, index + 1),
                                         g.vec.len - index)
                             \/ BlocksAt(h1, Offset(p, index)) = {},
                    acc  |-> (IF index < g.vec.len
                              THEN CopyAcc(g.vec, v.len, index, index + 1,
                                           g.vec.len - index)
                              ELSE <<>>) \o <<Acc("w", index, g.vec, v.len)>>,
                    steps |-> g.steps, wrapped |-> g.wrapped]
          ELSE [kind |-> g.kind, vec |-> v, heap |-> g.heap, wild |-> FALSE,
                acc |-> <<>>, steps |-> g.steps, wrapped |-> g.wrapped] :
             g \in GrowIfFull(v, h)}

\* remove reading the result after the shift has overwritten the slot.
RemoveReadsAfterShift(v, h, index) ==
    IF ~(index < v.len)
    THEN [kind |-> "panic", vec |-> v, heap |-> h, ret |-> None, wild |-> FALSE,
          acc |-> <<>>]
    ELSE LET w  == [v EXCEPT !.len = @ - 1]
             h1 == Copy(h, Offset(w.ptr, index + 1), Offset(w.ptr, index), w.len - index)
         IN  [kind |-> "ok", vec |-> w, heap |-> h1,
              ret  |-> Read(h1, Offset(w.ptr, index)),
              wild |-> CopyWild(h, Offset(w.ptr, index + 1), Offset(w.ptr, index),
                                w.len - index),
              acc  |-> CopyAcc(w, v.len, index + 1, index, w.len - index)
                          \o <<Acc("r", index, w, v.len)>>]

\* remove that also lowers cap to the new len.
RemoveShrinksCap(v, h, index) ==
    IF ~(index < v.len)
    THEN [kind |-> "panic", vec |-> v, heap |-> h, ret |-> None, wild |-> FALSE,
          acc |-> <<>>]
    ELSE LET w      == [v EXCEPT !.len = @ - 1]
             result == Read(h, Offset(w.ptr, index))
         IN  [kind |-> "ok",
              vec  |-> [w EXCEPT !.cap = w.len],
              heap |-> Copy(h, Offset(w.ptr, index + 1), Offset(w.ptr, index),
                            w.len - index),
              ret  |-> result,
              wild |-> FALSE,
              acc  |-> <<Acc("r", index, w, v.len)>>
                          \o CopyAcc(w, v.len, index + 1, index, w.len - index)]

\* Vec::remove(index)
RemoveOf(v, h, index) ==
    IF ~(index < v.len)
    THEN [kind |-> "panic", vec |-> v, heap |-> h, ret |-> None, wild |-> FALSE,
          acc |-> <<>>]
    ELSE LET w      == [v EXCEPT !.len = @ - 1]
             result == Read(h, Offset(w.ptr, index))
         IN  [kind |-> "ok",
              vec  |-> w,
              heap |-> Copy(h, Offset(w.ptr, index + 1), Offset(w.ptr, index),
                            w.len - index),
              ret  |-> result,
              wild |-> CopyWild(h, Offset(w.ptr, index + 1), Offset(w.ptr, index),
                                w.len - index),
              acc  |-> <<Acc("r", index, w, v.len)>>
                          \o CopyAcc(w, v.len, index + 1, index, w.len - index)]

\* What a drop does, in order: the destructor of an element runs
\* ("destruct"), the buffer at an address is released ("dealloc").
Event(ev, arg) == [ev |-> ev, arg |-> arg]

\* Deref::deref / DerefMut::deref_mut: slice::from_raw_parts(ptr, len), and
\* the slots a caller that reads the whole slice reads.
DerefOf(v, h) ==
    [slice |-> View(v, h),
     acc   |-> [k \in 1 .. v.len |-> Acc("r", k - 1, v, v.len)]]

RECURSIVE PopAll(_, _)
\* while let Some(_) = self.pop() {}: the elements popped, in order.
PopAll(v, h) ==
    LET r == PopOf(v, h)
    IN  IF r.ret = None THEN [vec |-> v, out |-> <<>>, acc |-> <<>>]
        ELSE LET rest == PopAll(r.vec, h)
             IN  [vec |-> rest.vec, out |-> <<r.ret>> \o rest.out,
                  acc |-> r.acc \o rest.acc]

\* Drop for Vec without the pop loop: the buffer is released with the
\* elements still in it.
DropVecNoDrain(v, h) ==
    IF v.cap # 0
    THEN LET num_bytes == WrapMul(ElemSize, v.cap)
         IN  [vec  |-> v,
              out  |-> <<>>,
              rel  |-> <<[addr  |-> v.ptr, bytes |-> num_bytes,
                          valid |-> DeallocValid(h, v.ptr, num_bytes)]>>,
              heap |-> Dealloc(h, v.ptr, num_bytes),
              acc  |-> <<>>,
              trace |-> <<Event("dealloc", v.ptr)>>]
    ELSE [vec |-> v, out |-> <<>>, rel |-> <<>>, heap |-> h, acc |-> <<>>,
          trace |-> <<>>]

\* Drop for Vec destructing the elements front to back.
DropVecFrontFirst(v, h) ==
    IF v.cap # 0
    THEN LET d         == PopAll(v, h)
             out       == [k \in 1 .. Len(d.out) |-> d.out[Len(d.out) + 1 - k]]
             num_bytes == WrapMul(ElemSize, d.vec.cap)
         IN  [vec  |-> d.vec,
              out  |-> out,
              rel  |-> <<[addr  |-> d.vec.ptr, bytes |-> num_bytes,
                          valid |-> DeallocValid(h, d.vec.ptr, num_bytes)]>>,
              heap |-> Dealloc(h, d.vec.ptr, num_bytes),
              acc  |-> d.acc,
              trace |-> [k \in 1 .. Len(out) |-> Event("destruct", out[k])]
                           \o <<Event("dealloc", d.vec.ptr)>>]
    ELSE [vec |-> v, out |-> <<>>, rel |-> <<>>, heap |-> h, acc |-> <<>>,
          trace |-> <<>>]

\* Drop for Vec
DropVecOf(v, h) ==
    IF v.cap # 0
    THEN LET d         == PopAll(v, h)
             num_bytes == WrapMul(ElemSize, d.vec.cap)
         IN  [vec  |-> d.vec,
              out  |-> d.out,
              rel  |-> <<[addr  |-> d.vec.ptr, bytes |-> num_bytes,
                          valid |-> DeallocValid(h, d.vec.ptr, num_bytes)]>>,
              heap |-> Dealloc(h, d.vec.ptr, num_bytes),
              acc  |-> d.acc,
              trace |-> [k \in 1 .. Len(d.out) |-> Event("destruct", d.out[k])]
                           \o <<Event("dealloc", d.vec.ptr)>>]
    ELSE [vec |-> v, out |-> <<>>, rel |-> <<>>, heap |-> h, acc |-> <<>>,
          trace |-> <<>>]

----------------------------------------------------------------------------
\* IntoIter<T>

NoIter == [buf |-> Null, cap |-> 0, start |-> Null, end |-> Null]

\* into_iter without mem::forget: self is dropped when the call returns.
ForgetRunsDrop(v, h) == DropVecOf(v, h)

\* mem::forget(self): the Vec's destructor does not run.
Forget(v, h) ==
    [vec |-> v, out |-> <<>>, rel |-> <<>>, heap |-> h, acc |-> <<>>, trace |-> <<>>]

\* into_iter with end at the end of the buffer instead of the last element.
IntoIterEndAtCap(v) ==
    [buf   |-> v.ptr,
     cap   |-> v.cap,
     start |-> v.ptr,
     end   |-> IF v.cap = 0 THEN v.ptr ELSE Offset(v.ptr, v.cap)]

\* Vec::into_iter(self)
IntoIterOf(v) ==
    [buf   |-> v.ptr,
     cap   |-> v.cap,
     start |-> v.ptr,
     end   |-> IF v.cap = 0 THEN v.ptr ELSE Offset(v.ptr, v.len)]

\* The slots from start up to end, as next would read them one by one.
Between(it, h) ==
    [k \in 1 .. ((it.end - it.start) \div ElemSize) |-> Read(h, Offset(it.start, k - 1))]

\* Iterator::next
NextOf(it, h) ==
    IF it.start = it.end
    THEN [iter |-> it, ret |-> None]
    ELSE [iter |-> [it EXCEPT !.start = Offset(@, 1)], ret |-> Read(h, it.start)]

\* next_back reading at end before it moves end back.
NextBackReadsFirst(it, h) ==
    IF it.start = it.end
    THEN [iter |-> it, ret |-> None]
    ELSE [iter |-> [it EXCEPT !.end = Offset(@, -1)], ret |-> Read(h, it.end)]

\* DoubleEndedIterator::next_back
NextBackOf(it, h) ==
    IF it.start = it.end
    THEN [iter |-> it, ret |-> None]
    ELSE LET jt == [it EXCEPT !.end = Offset(@, -1)]
         IN  [iter |-> jt, ret |-> Read(h, jt.end)]

\* size_hint without the division by the element size.
SizeHintInBytes(it) ==
    LET len == (it.end - it.start) % UsizeMod
    IN  <<len, len>>

\* Iterator::size_hint
SizeHint(it) ==
    LET len == ((it.end - it.start) % UsizeMod) \div ElemSize
    IN  <<len, len>>

RECURSIVE NextAll(_, _, _)
\* for _ in &mut *self {}: the elements taken, in order.  The fuel bounds
\* the loop of an iterator whose cursors never meet.
NextAll(it, h, fuel) ==
    LET r == NextOf(it, h)
    IN  IF r.ret = None \/ fuel = 0 THEN [iter |-> it, out |-> <<>>]
        ELSE LET rest == NextAll(r.iter, h, fuel - 1)
             IN  [iter |-> rest.iter, out |-> <<r.ret>> \o rest.out]

\* Drop for IntoIter without the draining loop.
DropIterNoDrain(it, h) ==
    IF it.cap # 0
    THEN LET num_bytes == WrapMul(ElemSize, it.cap)
         IN  [iter |-> it,
              out  |-> <<>>,
              rel  |-> <<[addr  |-> it.buf, bytes |-> num_bytes,
                          valid |-> DeallocValid(h, it.buf, num_bytes)]>>,
              heap |-> Dealloc(h, it.buf, num_bytes)]
    ELSE [iter |-> it, out |-> <<>>, rel |-> <<>>, heap |-> h]

\* Drop for IntoIter
DropIterOf(it, h) ==
    IF it.cap # 0
    THEN LET d         == NextAll(it, h, UsizeMod)
             num_bytes == WrapMul(ElemSize, d.iter.cap)
         IN  [iter |-> d.iter,
              out  |-> d.out,
              rel  |-> <<[addr  |-> d.iter.buf, bytes |-> num_bytes,
                          valid |-> DeallocValid(h, d.iter.buf, num_bytes)]>>,
              heap |-> Dealloc(h, d.iter.buf, num_bytes)]
    ELSE [iter |-> it, out |-> <<>>, rel |-> <<>>, heap |-> h]

----------------------------------------------------------------------------
\* Bookkeeping of what the caller observes.

NoSnap == [view |-> <<>>, index |-> -1, elem |-> None, cap |-> 0]

\* The record of a call on the Vec, taken before the call changes anything.
Call(op, index, elem, ok, ret, snap) ==
    [op |-> op, index |-> index, elem |-> elem, ok |-> ok, ret |-> ret,
     pre |-> View(vec, heap), preCap |-> vec.cap, snap |-> snap,
     prePtr |-> vec.ptr, acc |-> <<>>, steps |-> <<>>, wrapped |-> {},
     trace |-> <<>>]

\* The element e was returned to the caller.
Hand(hd, e) == IF e \in DOMAIN hd THEN [hd EXCEPT ![e] = @ + 1] ELSE hd

RunOff == [kind |-> "off", pushed |-> <<>>, popped |-> <<>>]

\* The observer follows a run of pushes that return, then as many pops, then
\* one more pop; any other call ends the run.
RunPush(r, ok, elem) ==
    IF r.kind = "push" /\ ok THEN [r EXCEPT !.pushed = Append(@, elem)] ELSE RunOff

RunPop(r, ret) ==
    IF r.kind \in {"push", "pop"}
    THEN IF Len(r.popped) < Len(r.pushed)
         THEN [r EXCEPT !.kind = "pop", !.popped = Append(@, ret)]
         ELSE [r EXCEPT !.kind = "done"]
    ELSE RunOff

\* Borrowing the view is no push, pop, insert or remove: a run goes on
\* through it, and a finished run is over.
RunDeref(r) == IF r.kind = "done" THEN RunOff ELSE r

----------------------------------------------------------------------------
\* The state after Vec::new().

Init ==
    /\ phase = "vec"
    /\ vec = New
    /\ iter = NoIter
    /\ heap = [b \in HeapBases |-> Free]
    /\ nextId = 1
    /\ stored = {}
    /\ taken = 0
    /\ handed = [e \in Elems |-> 0]
    /\ destructed = <<>>
    /\ released = <<>>
    /\ last = [op |-> "new", index |-> 0, elem |-> None, ok |-> TRUE, ret |-> None,
               pre |-> <<>>, preCap |-> 0, snap |-> NoSnap,
               prePtr |-> Dangling, acc |-> <<>>, steps |-> <<>>, wrapped |-> {},
               trace |-> <<>>]
    /\ run = [kind |-> "push", pushed |-> <<>>, popped |-> <<>>]
    /\ fwd = <<>>
    /\ bwd = <<>>
    /\ ub = FALSE

\* process::abort(): nothing runs afterwards.
Abort ==
    /\ phase' = "aborted"
    /\ UNCHANGED <<vec, iter, heap, nextId, stored, taken, handed, destructed,
                   released, last, run, fwd, bwd, ub>>

\* The caller constructs the next element and pushes it.  When the call
\* panics, the element is destructed as the call unwinds.
Push ==
    /\ phase = "vec"
    /\ nextId <= MaxElems
    /\ \E o \in PushOf(vec, heap, nextId) :
          IF o.kind = "abort" THEN Abort
          ELSE /\ vec' = o.vec
               /\ heap' = o.heap
               /\ nextId' = nextId + 1
               /\ stored' = IF o.kind = "ok" THEN stored \cup {nextId} ELSE stored
               /\ destructed' = IF o.kind = "ok" THEN destructed
                                ELSE Append(destructed, nextId)
               /\ last' = [Call("push", vec.len, nextId, o.kind = "ok", None, NoSnap)
                             EXCEPT !.acc = o.acc, !.steps = o.steps,
                                    !.wrapped = o.wrapped]
               /\ run' = RunPush(run, o.kind = "ok", nextId)
               /\ ub' = (ub \/ o.wild)
               /\ UNCHANGED <<phase, iter, taken, handed, released, fwd, bwd>>

Pop ==
    /\ phase = "vec"
    /\ LET o == PopOf(vec, heap)
       IN  /\ vec' = o.vec
           /\ taken' = IF o.ret = None THEN taken ELSE taken + 1
           /\ handed' = Hand(handed, o.ret)
           /\ last' = [Call("pop", vec.len, None, TRUE, o.ret, NoSnap)
                         EXCEPT !.acc = o.acc]
           /\ run' = RunPop(run, o.ret)
           /\ ub' = (ub \/ o.ret = Uninit)
    /\ UNCHANGED <<phase, iter, heap, nextId, stored, destructed, released, fwd, bwd>>

\* The caller constructs the next element and inserts it at an index that
\* is in bounds (0 .. len) or one past them.
Insert ==
    /\ phase = "vec"
    /\ nextId <= MaxElems
    /\ \E index \in 0 .. vec.len + 1 :
       \E o \in InsertOf(vec, heap, index, nextId) :
          IF o.kind = "abort" THEN Abort
          ELSE /\ vec' = o.vec
               /\ heap' = o.heap
               /\ nextId' = nextId + 1
               /\ stored' = IF o.kind = "ok" THEN stored \cup {nextId} ELSE stored
               /\ destructed' = IF o.kind = "ok" THEN destructed
                                ELSE Append(destructed, nextId)
               /\ last' = [Call("insert", index, nextId, o.kind = "ok", None, NoSnap)
                             EXCEPT !.acc = o.acc, !.steps = o.steps,
                                    !.wrapped = o.wrapped]
               /\ run' = RunOff
               /\ ub' = (ub \/ o.wild)
               /\ UNCHANGED <<phase, iter, taken, handed, released, fwd, bwd>>

\* remove at an index that is in bounds (0 .. len - 1) or the first one
\* out of them.  The snapshot remembers an insert that came right before.
Remove ==
    /\ phase = "vec"
    /\ \E index \in 0 .. vec.len :
          LET o == RemoveOf(vec, heap, index)
          IN  /\ vec' = o.vec
              /\ heap' = o.heap
              /\ taken' = IF o.kind = "ok" THEN taken + 1 ELSE taken
              /\ handed' = IF o.kind = "ok" THEN Hand(handed, o.ret) ELSE handed
              /\ last' = [Call("remove", index, None, o.kind = "ok", o.ret,
                               IF last.op = "insert" /\ last.ok
                               THEN [view |-> last.pre, index |-> last.index,
                                     elem |-> last.elem, cap |-> last.preCap]
                               ELSE NoSnap)
                            EXCEPT !.acc = o.acc]
              /\ ub' = (ub \/ o.wild \/ (o.kind = "ok" /\ o.ret = Uninit))
    /\ run' = RunOff
    /\ UNCHANGED <<phase, iter, nextId, stored, destructed, released, fwd, bwd>>

\* The caller borrows the view (deref or deref_mut) and reads it.
Deref ==
    /\ phase = "vec"
    /\ LET o == DerefOf(vec, heap)
       IN  /\ last' = [Call("deref", 0, None, TRUE, None, NoSnap)
                         EXCEPT !.acc = o.acc]
           /\ ub' = (ub \/ \E k \in 1 .. Len(o.slice) : o.slice[k] = Uninit)
    /\ run' = RunDeref(run)
    /\ UNCHANGED <<phase, vec, iter, heap, nextId, stored, taken, handed, destructed,
                   released, fwd, bwd>>

\* The Vec goes out of scope.
DropVec ==
    /\ phase = "vec"
    /\ LET o == DropVecOf(vec, heap)
       IN  /\ vec' = o.vec
           /\ heap' = o.heap
           /\ destructed' = destructed \o o.out
           /\ released' = released \o o.rel
           /\ ub' = (ub \/ \E k \in 1 .. Len(o.out) : o.out[k] = Uninit)
           /\ last' = [Call("drop_vec", 0, None, TRUE, None, NoSnap)
                         EXCEPT !.acc = o.acc, !.trace = o.trace]
    /\ phase' = "dropped"
    /\ run' = RunOff
    /\ UNCHANGED <<iter, nextId, stored, taken, handed, fwd, bwd>>

\* into_iter consumes the Vec: its fields are copied out and self is
\* forgotten.
IntoIter ==
    /\ phase = "vec"
    /\ LET o == Forget(vec, heap)
       IN  /\ iter' = IntoIterOf(vec)
           /\ vec' = o.vec
           /\ heap' = o.heap
           /\ destructed' = destructed \o o.out
           /\ released' = released \o o.rel
    /\ phase' = "iter"
    /\ last' = Call("into_iter", 0, None, TRUE, None, NoSnap)
    /\ run' = RunOff
    /\ UNCHANGED <<nextId, stored, taken, handed, fwd, bwd, ub>>

Next ==
    /\ phase = "iter"
    /\ LET o == NextOf(iter, heap)
       IN  /\ iter' = o.iter
           /\ fwd' = IF o.ret = None THEN fwd ELSE Append(fwd, o.ret)
           /\ handed' = Hand(handed, o.ret)
           /\ last' = [last EXCEPT !.op = "next", !.ret = o.ret]
           /\ ub' = (ub \/ o.ret = Uninit)
    /\ UNCHANGED <<phase, vec, heap, nextId, stored, taken, destructed, released, run, bwd>>

NextBack ==
    /\ phase = "iter"
    /\ LET o == NextBackOf(iter, heap)
       IN  /\ iter' = o.iter
           /\ bwd' = IF o.ret = None THEN bwd ELSE Append(bwd, o.ret)
           /\ handed' = Hand(handed, o.ret)
           /\ last' = [last EXCEPT !.op = "next_back", !.ret = o.ret]
           /\ ub' = (ub \/ o.ret = Uninit)
    /\ UNCHANGED <<phase, vec, heap, nextId, stored, taken, destructed, released, run, fwd>>

\* The IntoIter goes out of scope.
DropIter ==
    /\ phase = "iter"
    /\ LET o == DropIterOf(iter, heap)
       IN  /\ iter' = o.iter
           /\ heap' = o.heap
           /\ destructed' = destructed \o o.out
           /\ released' = released \o o.rel
           /\ ub' = (ub \/ \E k \in 1 .. Len(o.out) : o.out[k] = Uninit)
    /\ phase' = "dropped"
    /\ last' = [last EXCEPT !.op = "drop_iter", !.ret = None]
    /\ UNCHANGED <<vec, nextId, stored, taken, handed, run, fwd, bwd>>

NextStep ==
    \/ Push
    \/ Pop
    \/ Insert
    \/ Remove
    \/ Deref
    \/ DropVec
    \/ IntoIter
    \/ Next
    \/ NextBack
    \/ DropIter

Spec == Init /\ [][NextStep]_vars

----------------------------------------------------------------------------
\* Helpers of the properties.

Reverse(s) == [i \in 1 .. Len(s) |-> s[Len(s) + 1 - i]]

Count(s, e) == Cardinality({k \in 1 .. Len(s) : s[k] = e})

Range(s) == {s[k] : k \in 1 .. Len(s)}

RECURSIVE PowerOfTwoFrom(_, _)
\* The smallest p * 2^j that is >= k.
PowerOfTwoFrom(p, k) == IF p >= k THEN p ELSE PowerOfTwoFrom(2 * p, k)

\* The smallest power of two >= k, and 0 for k = 0.
CeilPow2(k) == IF k = 0 THEN 0 ELSE PowerOfTwoFrom(1, k)

\* The view now.
Now == View(vec, heap)

----------------------------------------------------------------------------
\* C1: in every state of a live Vec, whatever calls (failed ones included)
\* led to it, 0 <= len <= cap and len is the number of elements put in by a
\* push or insert that returned minus the number returned by pop and remove.
C1_LenInvariant ==
    phase = "vec" =>
        /\ 0 <= vec.len
        /\ vec.len <= vec.cap
        /\ vec.len = Cardinality(stored) - taken

\* C1's case: pushes, inserts, pops and removes have happened, the last
\* call a remove that failed.
C1_Witness ==
    /\ phase = "vec"
    /\ vec.len = 2
    /\ taken = 2
    /\ Len(destructed) >= 1
    /\ last.op = "remove"
    /\ ~last.ok

\* C2: an insert(index, x) that returns leaves the view s[0..index) ++ [x]
\* ++ s[index..len) and len one larger, s being the view it started from;
\* with index <= len it returns unless the buffer is full and grow's
\* assertion on the byte size fails.
C2_InsertView ==
    /\ (phase = "vec" /\ last.op = "insert" /\ last.ok) =>
          /\ last.index <= Len(last.pre)
          /\ vec.len = Len(last.pre) + 1
          /\ Now = SubSeq(last.pre, 1, last.index) \o <<last.elem>>
                     \o SubSeq(last.pre, last.index + 1, Len(last.pre))
    /\ (phase = "vec" /\ last.op = "insert" /\ ~last.ok) =>
          \/ last.index > Len(last.pre)
          \/ /\ Len(last.pre) = last.preCap
             /\ last.preCap * ElemSize > IsizeMax \div 2

\* C2's case: an insert in the middle of a full buffer, which grows first.
C2_Witness ==
    /\ phase = "vec"
    /\ last.op = "insert"
    /\ last.ok
    /\ 0 < last.index
    /\ last.index < Len(last.pre)
    /\ Len(last.pre) = last.preCap
    /\ vec.cap = 2 * last.preCap

\* C3: a remove(index) that returns gives s[index] and leaves the view
\* s[0..index) ++ s[index+1..len) and len one smaller.
C3_RemoveView ==
    /\ (phase = "vec" /\ last.op = "remove" /\ last.ok) =>
          /\ last.index < Len(last.pre)
          /\ last.ret = last.pre[last.index + 1]
          /\ vec.len = Len(last.pre) - 1
          /\ Now = SubSeq(last.pre, 1, last.index)
                     \o SubSeq(last.pre, last.index + 2, Len(last.pre))
    /\ (phase = "vec" /\ last.op = "remove" /\ ~last.ok) =>
          last.index >= Len(last.pre)

\* C3's case: a remove strictly inside a view of four elements.
C3_Witness ==
    /\ phase = "vec"
    /\ last.op = "remove"
    /\ last.ok
    /\ Len(last.pre) = 4
    /\ last.index = 1

\* C4: n pushes followed by n pops return the pushed elements in reverse
\* order; the container is then empty and one more pop returns None.
C4_PushPopReverse ==
    /\ run.kind \in {"pop", "done"} =>
          /\ Len(run.popped) <= Len(run.pushed)
          /\ \A i \in 1 .. Len(run.popped) :
                run.popped[i] = run.pushed[Len(run.pushed) + 1 - i]
          /\ Len(run.popped) = Len(run.pushed) => vec.len = 0
    /\ run.kind = "done" =>
          /\ run.popped = Reverse(run.pushed)
          /\ last.op = "pop"
          /\ last.ret = None
          /\ vec.len = 0

\* C4's case: four pushes, four pops and the further pop.
C4_Witness ==
    /\ run.kind = "done"
    /\ Len(run.pushed) = 4
    /\ Len(run.popped) = 4

\* C5: insert(index, x) and then remove(index) returns x and restores the
\* view and len the insert started from.
C5_InsertRemoveInverse ==
    (phase = "vec" /\ last.op = "remove" /\ last.snap # NoSnap
       /\ last.index = last.snap.index) =>
        /\ last.ok
        /\ last.ret = last.snap.elem
        /\ Now = last.snap.view
        /\ vec.len = Len(last.snap.view)

\* C5's case: the pair at an index inside a view of three elements.
C5_Witness ==
    /\ phase = "vec"
    /\ last.op = "remove"
    /\ last.snap # NoSnap
    /\ last.index = last.snap.index
    /\ last.index = 1
    /\ Len(last.snap.view) = 3

\* C6: the next calls return s[0], s[1], ... and the next_back calls
\* s[N-1], s[N-2], ..., s being the elements at into_iter; the two never
\* overlap, and once a call has returned None they cover s.
C6_IterPartition ==
    phase = "iter" =>
        LET s == last.pre
            i == Len(fwd)
            j == Len(bwd)
        IN  /\ i + j <= Len(s)
            /\ fwd = SubSeq(s, 1, i)
            /\ bwd = Reverse(SubSeq(s, Len(s) - j + 1, Len(s)))
            /\ (last.op \in {"next", "next_back"} /\ last.ret = None) =>
                  /\ i + j = Len(s)
                  /\ NextOf(iter, heap).ret = None
                  /\ NextBackOf(iter, heap).ret = None

\* C6's case: four elements drained from both ends until None.
C6_Witness ==
    /\ phase = "iter"
    /\ Len(last.pre) = 4
    /\ Len(fwd) = 2
    /\ Len(bwd) = 2
    /\ last.op = "next_back"
    /\ last.ret = None

\* C7: when the Vec is dropped, each element that was put in the container
\* was either returned to the caller once (by pop or remove) or destructed
\* once by the drop, never both, never neither.
C7_VecDropExactlyOnce ==
    (phase = "dropped" /\ last.op = "drop_vec") =>
        /\ \A e \in stored : handed[e] + Count(destructed, e) = 1
        /\ \A e \in stored : Count(destructed, e) = 1 <=> e \in Range(last.pre)
        /\ taken + Len(last.pre) = Cardinality(stored)
        /\ \A e \in Elems \ stored : handed[e] = 0 /\ Count(destructed, e) <= 1

\* C7's case: a drop after pops and removes, with elements still inside.
C7_Witness ==
    /\ phase = "dropped"
    /\ last.op = "drop_vec"
    /\ Cardinality(stored) = 4
    /\ taken = 2
    /\ Len(last.pre) = 2

\* C8: when the iterator is dropped, each of the elements it was created
\* with was either yielded to the caller once or destructed once by the
\* drop, never both, never neither.
C8_IterDropExactlyOnce ==
    (phase = "dropped" /\ last.op = "drop_iter") =>
        LET s == last.pre
        IN  /\ \A e \in Range(s) : handed[e] + Count(destructed, e) = 1
            /\ \A e \in Range(s) : handed[e] = 1 <=> e \in Range(fwd) \cup Range(bwd)
            /\ Len(fwd) + Len(bwd) + Cardinality({e \in Range(s) : Count(destructed, e) = 1})
                   = Len(s)
            /\ \A e \in stored \ Range(s) : handed[e] = 1 /\ Count(destructed, e) = 0

\* C8's case: an iterator over four elements dropped after one take from
\* each end.
C8_Witness ==
    /\ phase = "dropped"
    /\ last.op = "drop_iter"
    /\ Len(last.pre) = 4
    /\ Len(fwd) = 1
    /\ Len(bwd) = 1

\* C9: nothing is released while the Vec or the iterator lives; the drop of
\* the final owner releases the buffer once, as a block of cap elements,
\* when cap > 0, and releases nothing when cap = 0; into_iter releases
\* nothing.
C9_ReleasedOnce ==
    /\ phase \in {"vec", "iter"} => released = <<>>
    /\ phase = "dropped" =>
          LET byIter == last.op = "drop_iter"
              cap    == IF byIter THEN iter.cap ELSE vec.cap
              ptr    == IF byIter THEN iter.buf ELSE vec.ptr
          IN  /\ cap > 0 =>
                    released = <<[addr |-> ptr, bytes |-> cap * ElemSize, valid |-> TRUE]>>
              /\ cap = 0 => released = <<>>
              /\ \A b \in HeapBases : heap[b] = Free

\* C9's case: an empty Vec with a buffer, turned into an iterator that is
\* then dropped.
C9_Witness ==
    /\ phase = "dropped"
    /\ last.op = "drop_iter"
    /\ Len(last.pre) = 0
    /\ iter.cap = 2
    /\ Len(released) = 1

\* C10: after k pushes (that returned) and nothing else, cap is the
\* smallest power of two >= k, and 0 for k = 0.
C10_GrowthDoubling ==
    run.kind = "push" => vec.cap = CeilPow2(Len(run.pushed))

\* C10's case: three pushes leave cap = 4.
C10_Witness ==
    /\ run.kind = "push"
    /\ Len(run.pushed) = 3
    /\ vec.cap = 4

\* C11: an insert with index > len and a remove with index >= len fail,
\* and a call that failed (those two, and a push or insert that failed
\* grow's assertion) has changed neither len, cap, the base address nor the
\* view, has touched no slot and has asked for no reallocation.
C11_FailureChangesNothing ==
    phase = "vec" =>
        /\ (last.op = "insert" /\ last.index > Len(last.pre)) => ~last.ok
        /\ (last.op = "remove" /\ last.index >= Len(last.pre)) => ~last.ok
        /\ ~last.ok =>
              /\ last.op \in {"push", "insert", "remove"}
              /\ vec.len = Len(last.pre)
              /\ vec.cap = last.preCap
              /\ vec.ptr = last.prePtr
              /\ Now = last.pre
              /\ last.acc = <<>>
              /\ "realloc" \notin Range(last.steps)

\* C11's case: a push on a full buffer of four elements failed in grow.
C11_Witness ==
    /\ phase = "vec"
    /\ last.op = "push"
    /\ ~last.ok
    /\ Len(last.pre) = 4
    /\ "assert" \in Range(last.steps)

\* C12: pop on an empty Vec returns None, touches no slot and leaves len
\* and cap as they are, with or without a buffer; pop on a Vec of len >= 1
\* returns the element at index len - 1 and leaves the first len - 1
\* elements and cap as they are, writing no slot.
C12_Pop ==
    (phase = "vec" /\ last.op = "pop") =>
        /\ last.ok
        /\ vec.cap = last.preCap
        /\ vec.ptr = last.prePtr
        /\ \A k \in 1 .. Len(last.acc) : last.acc[k].rw = "r"
        /\ Len(last.pre) = 0 =>
              /\ last.ret = None
              /\ vec.len = 0
              /\ last.acc = <<>>
        /\ Len(last.pre) >= 1 =>
              /\ last.ret = last.pre[Len(last.pre)]
              /\ Now = SubSeq(last.pre, 1, Len(last.pre) - 1)

\* C12's case: a pop on an empty Vec that owns a buffer of two slots.
C12_Witness ==
    /\ phase = "vec"
    /\ last.op = "pop"
    /\ Len(last.pre) = 0
    /\ last.preCap = 2
    /\ last.ret = None

\* C13: size_hint is (r, Some(r)) with r the number of elements at
\* into_iter minus the number of takes that returned one; r is 0 exactly
\* when next and next_back return None.
C13_SizeHintExact ==
    phase = "iter" =>
        LET r == Len(last.pre) - Len(fwd) - Len(bwd)
        IN  /\ r >= 0
            /\ SizeHint(iter) = <<r, r>>
            /\ (r = 0) <=> (NextOf(iter, heap).ret = None
                              /\ NextBackOf(iter, heap).ret = None)

\* C13's case: three elements, one taken from the front, two remaining.
C13_Witness ==
    /\ phase = "iter"
    /\ Len(last.pre) = 3
    /\ Len(fwd) = 1
    /\ Len(bwd) = 0
    /\ SizeHint(iter) = <<2, 2>>

\* The destructor runs of the elements of s, in the order of s.
Destructs(s) == [k \in 1 .. Len(s) |-> Event("destruct", s[k])]

\* The release of the buffer a dropped Vec held, if it held one.
BufferRelease == IF last.preCap = 0 THEN <<>> ELSE <<Event("dealloc", last.prePtr)>>

\* C14, as stated: the drop of a Vec destructs its elements in index order,
\* index 0 first, and releases the buffer after the last of them.
C14_DropInIndexOrder ==
    (phase = "dropped" /\ last.op = "drop_vec") =>
        last.trace = Destructs(last.pre) \o BufferRelease

\* C14, amended: the drop of a Vec destructs its elements in reverse index
\* order, index len - 1 first and index 0 last (it pops them), and releases
\* the buffer after the last of them.
C14_DropInReverseOrder ==
    (phase = "dropped" /\ last.op = "drop_vec") =>
        /\ last.trace = Destructs(Reverse(last.pre)) \o BufferRelease
        /\ \A k \in 1 .. Len(last.trace) :
              last.trace[k].ev = "dealloc" => k = Len(last.pre) + 1

\* C14's case: a Vec of three elements is dropped.
C14_Witness ==
    /\ phase = "dropped"
    /\ last.op = "drop_vec"
    /\ Len(last.pre) = 3
    /\ Len(last.trace) = 4

\* C15: in every state of the iterator start <= end, both cursors lie in
\* [buf, buf + N elements], the slots from start to end hold the elements
\* not yet yielded, in their order, and with start = end next and next_back
\* return None and leave both cursors where they are.
C15_IterCursors ==
    phase = "iter" =>
        LET s == last.pre
            i == Len(fwd)
            j == Len(bwd)
        IN  /\ iter.start <= iter.end
            /\ iter.buf <= iter.start
            /\ iter.end <= Offset(iter.buf, Len(s))
            /\ Between(iter, heap) = SubSeq(s, i + 1, Len(s) - j)
            /\ iter.start = iter.end =>
                  /\ NextOf(iter, heap) = [iter |-> iter, ret |-> None]
                  /\ NextBackOf(iter, heap) = [iter |-> iter, ret |-> None]
            /\ (last.op \in {"next", "next_back"} /\ last.ret = None) =>
                  iter.start = iter.end

\* C15's case: a call of next on an iterator that three takes, from both
\* ends, have exhausted.
C15_Witness ==
    /\ phase = "iter"
    /\ Len(last.pre) = 3
    /\ Len(fwd) = 1
    /\ Len(bwd) = 2
    /\ last.op = "next"
    /\ last.ret = None
    /\ iter.start = iter.end

\* The elements of the view are live: distinct, put in by a push or insert,
\* not returned to the caller and not destructed.
ViewIsLive ==
    /\ \A k \in 1 .. Len(Now) :
          /\ Now[k] \in stored
          /\ handed[Now[k]] = 0
          /\ Count(destructed, Now[k]) = 0
    /\ Cardinality(Range(Now)) = Len(Now)

\* C16, as stated: a slot that a call reads has index < len at the time of
\* the read, and a slot that a call writes has index < cap.
C16_ReadsBelowCurrentLen ==
    \A k \in 1 .. Len(last.acc) :
        /\ last.acc[k].rw = "r" => last.acc[k].slot < last.acc[k].len
        /\ last.acc[k].rw = "w" => last.acc[k].slot < last.acc[k].cap

\* C16, amended: a slot that a call reads has an index below the len the
\* call started with (pop and remove lower len before they read, so the
\* index may equal the len of that moment) and holds a live element; a slot
\* that a call writes has index < cap at that moment, insert having grown a
\* full buffer before it shifts; no access leaves the buffer.
C16_AccessesInBounds ==
    /\ \A k \in 1 .. Len(last.acc) :
          /\ 0 <= last.acc[k].slot
          /\ last.acc[k].rw = "r" =>
                /\ last.acc[k].slot < last.acc[k].len0
                /\ last.acc[k].slot <= last.acc[k].len
          /\ last.acc[k].rw = "w" => last.acc[k].slot < last.acc[k].cap
          /\ last.acc[k].slot < last.acc[k].cap
    /\ (last.op = "insert" /\ last.ok /\ Len(last.pre) = last.preCap) =>
          /\ last.steps # <<>>
          /\ \A k \in 1 .. Len(last.acc) : last.acc[k].cap = vec.cap
          /\ vec.cap > last.preCap
    /\ phase = "vec" => ViewIsLive
    /\ \A k \in 1 .. Len(last.pre) : last.pre[k] \in stored
    /\ ~ub

\* C16's case: an insert at the front of a full buffer of two elements,
\* which grows and then shifts both.
C16_Witness ==
    /\ phase = "vec"
    /\ last.op = "insert"
    /\ last.ok
    /\ last.index = 0
    /\ Len(last.pre) = 2
    /\ last.preCap = 2
    /\ Len(last.acc) = 5

\* In steps, an "assert" comes before every step named in names.
AssertBefore(steps, names) ==
    \A k \in 1 .. Len(steps) :
        steps[k] \in names => \E j \in 1 .. k - 1 : steps[j] = "assert"

\* A grow from cap > 0 ran in the last call.
GrewFromNonzero == "assert" \in Range(last.steps)

\* C17, as stated: cap * e <= isize::MAX in every state; in a grow from
\* cap > 0 the check comes before every doubling multiply; a grow that
\* passes wraps no product; a grow that fails leaves cap and requests no
\* reallocation.
C17_CheckBeforeEveryMultiply ==
    /\ vec.cap * ElemSize <= IsizeMax
    /\ GrewFromNonzero =>
          /\ AssertBefore(last.steps, {"cap*2", "bytes*2", "realloc"})
          /\ last.ok => last.wrapped = {}
          /\ ~last.ok => (vec.cap = last.preCap /\ "realloc" \notin Range(last.steps))

\* C17, amended: cap * e <= isize::MAX in every state; in a grow from
\* cap > 0 the check comes before the doubling of the byte size and before
\* the reallocation, but after the products cap * 2 and cap * e are
\* computed; no product wraps in any grow, passing or failing; a grow that
\* passes doubles cap exactly; a grow that fails leaves cap and requests no
\* reallocation.
C17_CheckBeforeByteDoubling ==
    /\ vec.cap * ElemSize <= IsizeMax
    /\ GrewFromNonzero =>
          /\ last.op \in {"push", "insert"}
          /\ Len(last.pre) = last.preCap
          /\ last.preCap > 0
          /\ AssertBefore(last.steps, {"bytes*2", "realloc"})
          /\ SubSeq(last.steps, 1, 3) = <<"cap*2", "cap*elem_size", "assert">>
          /\ last.wrapped = {}
          /\ last.ok => (vec.cap = 2 * last.preCap /\ vec.cap < UsizeMod)
          /\ last.ok <=> last.preCap * ElemSize <= IsizeMax \div 2
          /\ ~last.ok =>
                /\ vec.cap = last.preCap
                /\ "realloc" \notin Range(last.steps)
                /\ "bytes*2" \notin Range(last.steps)

\* C17's case: an insert into a full buffer of four elements: the check
\* fails.
C17_Witness ==
    /\ phase = "vec"
    /\ last.op = "insert"
    /\ ~last.ok
    /\ last.index <= Len(last.pre)
    /\ last.steps = <<"cap*2", "cap*elem_size", "assert">>
    /\ vec.cap = 4

\* The owner's fields ptr and cap agree with the allocator: cap = 0 with the
\* dangling pointer and no live block, or one live block of cap slots at ptr.
BufferInv(ptr, cap) ==
    /\ cap = CeilPow2(cap)
    /\ cap = 0 <=> ptr = Dangling
    /\ cap = 0 => \A b \in HeapBases : heap[b] = Free
    /\ cap > 0 =>
          /\ ptr \in HeapBases
          /\ heap[ptr].bytes = cap * ElemSize
          /\ Len(heap[ptr].slots) = cap
          /\ \A b \in HeapBases \ {ptr} : heap[b] = Free

\* C18: cap of a Vec, and of an iterator's buffer, is 0 or a power of two;
\* cap = 0 exactly when the pointer is the dangling sentinel and nothing is
\* allocated, cap > 0 exactly when there is one live block, of cap slots.
C18_BufferShape ==
    /\ phase = "vec" => BufferInv(vec.ptr, vec.cap)
    /\ phase = "iter" => BufferInv(iter.buf, iter.cap)

\* C18's case: an iterator that owns a buffer of four slots, which realloc
\* has moved.
C18_Witness ==
    /\ phase = "iter"
    /\ iter.cap = 4
    /\ iter.buf = 16
    /\ Len(fwd) = 1

\* C19: a grow that succeeds keeps len and the elements of the view, also
\* at a new address, and changes cap from 0 to 1 or else to 2 * cap; so
\* does the push that ran it.
C19_GrowKeepsElements ==
    /\ (phase = "vec" /\ vec.len = vec.cap) =>
          \A g \in Grow(vec, heap) :
              g.kind = "ok" =>
                  /\ g.vec.len = vec.len
                  /\ View(g.vec, g.heap) = Now
                  /\ g.vec.cap = IF vec.cap = 0 THEN 1 ELSE 2 * vec.cap
                  /\ g.vec.ptr \in HeapBases
                  /\ Len(g.heap[g.vec.ptr].slots) = g.vec.cap
    /\ (phase = "vec" /\ last.op = "push" /\ last.ok /\ Len(last.pre) = last.preCap) =>
          /\ vec.cap = IF last.preCap = 0 THEN 1 ELSE 2 * last.preCap
          /\ vec.len = Len(last.pre) + 1
          /\ SubSeq(Now, 1, Len(last.pre)) = last.pre

\* C19's case: a push on a full buffer of two elements, which realloc moved.
C19_Witness ==
    /\ phase = "vec"
    /\ last.op = "push"
    /\ last.ok
    /\ Len(last.pre) = 2
    /\ last.preCap = 2
    /\ vec.ptr # last.prePtr

\* C20: no call lowers cap; pop, remove, the views, and a push or insert
\* that starts with len < cap leave cap and the base address as they are;
\* they change only in a push or insert that starts with len = cap; insert
\* and then remove at the same index restores the view, with cap at least
\* what it was.
C20_CapacityFrame ==
    phase = "vec" =>
        /\ vec.cap >= last.preCap
        /\ (\/ last.op \in {"pop", "remove", "deref"}
            \/ (last.op \in {"push", "insert"} /\ Len(last.pre) < last.preCap)) =>
              (vec.cap = last.preCap /\ vec.ptr = last.prePtr)
        /\ (vec.cap # last.preCap \/ vec.ptr # last.prePtr) =>
              /\ last.op \in {"push", "insert"}
              /\ last.ok
              /\ Len(last.pre) = last.preCap
        /\ (last.op = "remove" /\ last.snap # NoSnap /\ last.index = last.snap.index) =>
              /\ Now = last.snap.view
              /\ vec.cap >= last.snap.cap

\* C20's case: insert and remove at the same index, the insert having
\* grown the buffer: the view is restored and cap is larger.
C20_Witness ==
    /\ phase = "vec"
    /\ last.op = "remove"
    /\ last.snap # NoSnap
    /\ last.index = last.snap.index
    /\ Now = last.snap.view
    /\ vec.cap > last.snap.cap

====
